---- MODULE Spec2Model ----
(***************************************************************************)
(* The Analytics page of the admin console (src/src/pages/Analytics.tsx):  *)
(* its React state, the fetchAnalytics run started by the effect, and the  *)
(* report fetchAnalytics computes from the three collections it reads.     *)
(*                                                                         *)
(* Values.  An optional field of a document is a sequence of length 0      *)
(* (absent / undefined / null) or 1 (present).  Money and quantities are   *)
(* integers.  An instant is a number of ticks since the epoch start in     *)
(* the viewer's local time, TicksPerDay ticks to a calendar day.  A date   *)
(* string is the tuple of the numbers it prints, in the order it prints    *)
(* them; the string 'Unknown' is the empty tuple.  A JavaScript object     *)
(* used as a map is the sequence of its own entries in the order           *)
(* Object.entries / Object.values lists them.                              *)
(***************************************************************************)
EXTENDS Integers, Sequences, FiniteSets, TLC

VARIABLES
    store,      \* the three Firestore collections: [orders, products, categories]
    now,        \* the browser clock (new Date()), an instant
    locale,     \* the browser's default locale, used by toLocaleDateString()
    loading,    \* useState(true)
    timeRange,  \* useState('30')
    analytics,  \* useState<AnalyticsData>({...})
    run,        \* the fetchAnalytics invocation: its position and captured timeRange
    outcome,    \* history: how the last settled run ended, what it read and retained
    customOrders \* the CustomOrders page: the collection, its useState values and calls in flight

analyticsVars == <<store, now, locale, loading, timeRange, analytics, run, outcome>>

vars == <<store, now, locale, loading, timeRange, analytics, run, outcome, customOrders>>

-----------------------------------------------------------------------------
(* Bounds of the model. *)

TicksPerDay == 2
MaxFilterOrders == 2
MaxItemOrders == 2
MaxSeriesDates == 15
MaxItemProducts == 6
MaxPageOrders == 2
MaxTicks == 1
MaxStatusOrders == 3

(* Constants of the program. *)

TopLimit == 5
SeriesLimit == 14

\* The significant bits of a Number (an IEEE 754 double).
MantissaBits == 53

-----------------------------------------------------------------------------
(* Optional values and small helpers. *)

None == <<>>
Some(x) == <<x>>
IsSome(o) == Len(o) = 1

Min(a, b) == IF a < b THEN a ELSE b
Max(a, b) == IF a > b THEN a ELSE b

\* The sum of a sequence of numbers (Array.prototype.reduce with +, from 0).
RECURSIVE Sum(_)
Sum(s) == IF s = <<>> THEN 0 ELSE Head(s) + Sum(Tail(s))

RECURSIVE Concat(_)
Concat(ss) == IF ss = <<>> THEN <<>> ELSE Head(ss) \o Concat(Tail(ss))

Range(s) == {s[i] : i \in 1..Len(s)}

Reverse(s) == [i \in 1..Len(s) |-> s[Len(s) + 1 - i]]

-----------------------------------------------------------------------------
(* Time: the local calendar, setDate, toLocaleDateString and Date parsing. *)

\* Day number (since the epoch start) of 1 January 2026: 56 years, 14 of them leap.
Jan1_2026 == 56 * 365 + 14

DaysInMonth(m) ==
    CASE m = 2 -> 28
      [] m \in {4, 6, 9, 11} -> 30
      [] OTHER -> 31

RECURSIVE DaysBeforeMonth(_)
DaysBeforeMonth(m) == IF m <= 1 THEN 0 ELSE DaysBeforeMonth(m - 1) + DaysInMonth(m - 1)

\* The local calendar day an instant falls on, as a day number.
DayOf(t) == t \div TicksPerDay

\* Local midnight of a day number.
Midnight(day) == day * TicksPerDay

RECURSIVE MonthOfYearDay(_, _)
MonthOfYearDay(yd, m) ==
    IF yd < DaysInMonth(m) THEN m ELSE MonthOfYearDay(yd - DaysInMonth(m), m + 1)

\* The calendar date of a day number of 2026: [y, m, d].
CalendarDate(day) ==
    LET yd == day - Jan1_2026
        m == MonthOfYearDay(yd, 1)
    IN [y |-> 2026, m |-> m, d |-> yd - DaysBeforeMonth(m) + 1]

\* cutoffDate.setDate(cutoffDate.getDate() - daysAgo): the same local time of day,
\* daysAgo calendar days earlier.
SetDateBack(t, daysAgo) == t - daysAgo * TicksPerDay

\* Date.prototype.toLocaleDateString() with no argument: the runtime's default
\* locale decides the order of the fields. en-US prints month/day/year, en-GB
\* (like en-IN, fr-FR, ...) prints day/month/year.
ToLocaleDateString(t, loc) ==
    LET c == CalendarDate(DayOf(t))
    IN IF loc = "en-US" THEN <<c.m, c.d, c.y>> ELSE <<c.d, c.m, c.y>>

UnknownDate == <<>>

\* new Date(string).getTime() for the strings above: the engines' non-ISO parser
\* reads a/b/y as month a, day b of year y whatever locale printed it, and yields
\* an Invalid Date (getTime() NaN, here None) for a month above 12 and for
\* a string that is no date ('Unknown').
DateParseTime(s) ==
    IF Len(s) = 3 /\ s[1] \in 1..12 /\ s[2] \in 1..31
    THEN Some(Midnight(Jan1_2026 + DaysBeforeMonth(s[1]) + s[2] - 1))
    ELSE None

\* parseInt(timeRange) for the strings the page and the filter are given.
ParseInt(s) ==
    CASE s = "1" -> 1
      [] s = "7" -> 7
      [] s = "30" -> 30
      [] s = "90" -> 90
      [] s = "365" -> 365
      [] s = "36500" -> 36500

-----------------------------------------------------------------------------
(* JavaScript objects used as group-by accumulators. *)

\* The array index a property name denotes, or -1: own properties that are
\* array indices are listed first, in ascending numeric order.
KeyIndex(k) ==
    CASE k = "2" -> 2
      [] k = "10" -> 10
      [] OTHER -> -1

HasKey(m, k) == \E i \in 1..Len(m) : m[i].key = k

Get(m, k) == (CHOOSE e \in Range(m) : e.key = k).val

\* Where a new own property k is listed among the entries m.
InsertAt(m, k) ==
    IF KeyIndex(k) < 0 THEN Len(m) + 1
    ELSE LET later == {i \in 1..Len(m) : KeyIndex(m[i].key) < 0 \/ KeyIndex(m[i].key) > KeyIndex(k)}
         IN IF later = {} THEN Len(m) + 1 ELSE CHOOSE i \in later : \A j \in later : i <= j

\* obj[k] = v
Put(m, k, v) ==
    IF HasKey(m, k)
    THEN [i \in 1..Len(m) |-> IF m[i].key = k THEN [key |-> k, val |-> v] ELSE m[i]]
    ELSE LET p == InsertAt(m, k)
         IN SubSeq(m, 1, p - 1) \o <<[key |-> k, val |-> v]>> \o SubSeq(m, p, Len(m))

\* A slip: slice(-13).
SliceLastOneShort(s, n) == SubSeq(s, Max(1, Len(s) - n + 2), Len(s))

\* Array.prototype.slice(0, n) and slice(-n).
SliceFirst(s, n) == SubSeq(s, 1, Min(n, Len(s)))
SliceLast(s, n) == SubSeq(s, Max(1, Len(s) - n + 1), Len(s))

-----------------------------------------------------------------------------
(* fetchAnalytics: the computation that follows the three reads.           *)
(*                                                                         *)
(* An order is [id, createdAt, totalAmount, status, products]: createdAt   *)
(* is Some(instant) for a Firestore Timestamp and None when the field is   *)
(* missing or has no toDate(); products is [kind, items] with kind         *)
(* "absent" (undefined or null), "array", or "other" (a value that is no   *)
(* array: a string, a number, a map); an item is None (null) or            *)
(* Some([productId, name, price, quantity]).  A product is                 *)
(* [id, categoryId] and a category [id, name], categoryId and name          *)
(* optional.  Ids are document ids: strings that name no property every    *)
(* object inherits.  An order's id is its position in the collection.      *)

\* A slip: an order without a timestamp taken as created now.
OrderDateOrNow(order) == IF IsSome(order.createdAt) THEN order.createdAt[1] ELSE now

\* order.createdAt?.toDate?.() || new Date(0)
OrderDate(order) == IF IsSome(order.createdAt) THEN order.createdAt[1] ELSE 0

\* const daysAgo = parseInt(timeRange); cutoffDate = new Date(); setDate(getDate() - daysAgo)
cutoffDate(nowT, range) == SetDateBack(nowT, ParseInt(range))

\* A slip: > for >=.
RetainedAfter(order, cutoff) == OrderDate(order) > cutoff

\* A slip: an order without a timestamp let through the filter.
RetainedOrUnstamped(order, cutoff) == order.createdAt = None \/ OrderDate(order) >= cutoff

\* return orderDate >= cutoffDate
Retained(order, cutoff) == OrderDate(order) >= cutoff

filteredOrders(orders, nowT, range) ==
    SelectSeq(orders, LAMBDA order : Retained(order, cutoffDate(nowT, range)))

\* order.totalAmount || 0
\* A slip: a missing totalAmount counted as 1.
AmountOrOne(order) == IF IsSome(order.totalAmount) THEN order.totalAmount[1] ELSE 1

Amount(order) == IF IsSome(order.totalAmount) THEN order.totalAmount[1] ELSE 0

totalRevenue(fo) == Sum([i \in 1..Len(fo) |-> Amount(fo[i])])

totalOrders(fo) == Len(fo)

\* Numbers are IEEE 754 doubles. The amounts of the model are small whole
\* numbers, whose sums and products are exact; a quotient is not. A positive
\* double is its 53 significant bits, first bit 1, and the binary exponent of
\* the first bit; bit sequences stand in for integers too wide to compute with.
Zero == [bits |-> <<>>, exp |-> 0]

RECURSIVE BitsOf(_)
BitsOf(n) == IF n = 0 THEN <<>> ELSE Append(BitsOf(n \div 2), n % 2)

\* A bit sequence plus one: the last 0 becomes 1 and the 1s after it 0; a
\* sequence of 1s grows by a bit.
PlusOne(bits) ==
    LET zeros == {i \in 1..Len(bits) : bits[i] = 0}
    IN IF zeros = {} THEN <<1>> \o [i \in 1..Len(bits) |-> 0]
       ELSE LET last == CHOOSE i \in zeros : \A j \in zeros : j <= i
            IN [i \in 1..Len(bits) |-> IF i < last THEN bits[i] ELSE IF i = last THEN 1 ELSE 0]

\* Round to nearest, ties to even: bits (first bit 1) followed by a remainder
\* that is nonzero iff sticky.
RoundToDouble(bits, exp, sticky) ==
    IF Len(bits) <= MantissaBits
    THEN [bits |-> bits \o [i \in 1..(MantissaBits - Len(bits)) |-> 0], exp |-> exp]
    ELSE LET kept == SubSeq(bits, 1, MantissaBits)
             rest == sticky \/ \E i \in (MantissaBits + 2)..Len(bits) : bits[i] = 1
             up == bits[MantissaBits + 1] = 1 /\ (rest \/ kept[MantissaBits] = 1)
             raised == PlusOne(kept)
         IN IF ~up THEN [bits |-> kept, exp |-> exp]
            ELSE IF Len(raised) > MantissaBits
            THEN [bits |-> SubSeq(raised, 1, MantissaBits), exp |-> exp + 1]
            ELSE [bits |-> raised, exp |-> exp]

\* A non-negative whole number as a double.
DoubleOf(n) == IF n = 0 THEN Zero ELSE RoundToDouble(BitsOf(n), Len(BitsOf(n)) - 1, FALSE)

RECURSIVE DoublingsWithin(_, _)
DoublingsWithin(a, b) == IF 2 * a <= b THEN 1 + DoublingsWithin(2 * a, b) ELSE 0

RECURSIVE DoublingsToReach(_, _)
DoublingsToReach(a, b) == IF a >= b THEN 0 ELSE 1 + DoublingsToReach(2 * a, b)

RECURSIVE Doubled(_, _)
Doubled(a, k) == IF k = 0 THEN a ELSE Doubled(2 * a, k - 1)

\* count bits of long division, and the remainder left: the first half of
\* the bits, then the second half from the remainder of the first.
RECURSIVE LongDivision(_, _, _)
LongDivision(rem, den, count) ==
    IF count = 0 THEN [bits |-> <<>>, rem |-> rem]
    ELSE IF count = 1
    THEN LET bit == IF rem >= den THEN 1 ELSE 0
         IN [bits |-> <<bit>>, rem |-> 2 * (rem - bit * den)]
    ELSE LET first == LongDivision(rem, den, count \div 2)
             second == LongDivision(first.rem, den, count - (count \div 2))
         IN [bits |-> first.bits \o second.bits, rem |-> second.rem]

\* r / n for whole numbers r >= 0 and n > 0: the quotient's first 54 bits by
\* long division, rounded.
Divide(r, n) ==
    IF r = 0 THEN Zero
    ELSE LET up == IF r >= n THEN DoublingsWithin(n, r) ELSE 0
             down == IF r >= n THEN 0 ELSE DoublingsToReach(r, n)
             q == LongDivision(Doubled(r, down), Doubled(n, up), MantissaBits + 1)
         IN RoundToDouble(q.bits, up - down, q.rem # 0)

\* A slip: the quotient cut to a whole number.
averageOrderValueFloor(fo) ==
    IF totalOrders(fo) > 0 THEN DoubleOf(totalRevenue(fo) \div totalOrders(fo)) ELSE Zero

\* totalOrders > 0 ? totalRevenue / totalOrders : 0
averageOrderValue(fo) ==
    IF totalOrders(fo) > 0 THEN Divide(totalRevenue(fo), totalOrders(fo)) ELSE Zero

\* order.products?.forEach((item) => ... item.productId ...) raises a TypeError
\* when products is present and has no forEach, and when an item is null.
\* A slip: order.products.forEach without the optional chaining.
OrderRaisesWhenAbsent(order) ==
    \/ order.products.kind \in {"other", "absent"}
    \/ /\ order.products.kind = "array"
       /\ \E j \in 1..Len(order.products.items) : order.products.items[j] = None

OrderRaises(order) ==
    \/ order.products.kind = "other"
    \/ /\ order.products.kind = "array"
       /\ \E j \in 1..Len(order.products.items) : order.products.items[j] = None

Raises(fo) == \E i \in 1..Len(fo) : OrderRaises(fo[i])

\* The items the two nested forEach loops visit, in order (no order raising).
ItemsOf(order) ==
    IF order.products.kind = "array"
    THEN [j \in 1..Len(order.products.items) |-> order.products.items[j][1]]
    ELSE <<>>

LineItems(fo) == Concat([i \in 1..Len(fo) |-> ItemsOf(fo[i])])

\* item.price * item.quantity
ItemRevenue(item) == item.price * item.quantity

\* A slip: sales counting line items, not quantities.
AddSaleCountingLines(ps, item) ==
    LET old == IF HasKey(ps, item.productId) THEN Get(ps, item.productId)
               ELSE [name |-> item.name, sales |-> 0, revenue |-> 0]
    IN Put(ps, item.productId,
           [name |-> old.name,
            sales |-> old.sales + 1,
            revenue |-> old.revenue + ItemRevenue(item)])

\* if (!productSales[id]) productSales[id] = {name, sales: 0, revenue: 0};
\* productSales[id].sales += quantity; productSales[id].revenue += price * quantity.
AddSale(ps, item) ==
    LET old == IF HasKey(ps, item.productId) THEN Get(ps, item.productId)
               ELSE [name |-> item.name, sales |-> 0, revenue |-> 0]
    IN Put(ps, item.productId,
           [name |-> old.name,
            sales |-> old.sales + item.quantity,
            revenue |-> old.revenue + ItemRevenue(item)])

RECURSIVE FoldSales(_, _)
FoldSales(ps, items) ==
    IF items = <<>> THEN ps ELSE FoldSales(AddSale(ps, Head(items)), Tail(items))

productSales(fo) == FoldSales(<<>>, LineItems(fo))

\* .sort((a, b) => b.revenue - a.revenue): a stable sort; each element is moved
\* left past the elements it must precede.
RECURSIVE InsertByRevenue(_, _)
InsertByRevenue(sorted, x) ==
    IF sorted = <<>> THEN <<x>>
    ELSE LET last == sorted[Len(sorted)]
         IN IF last.revenue - x.revenue < 0
            THEN InsertByRevenue(SubSeq(sorted, 1, Len(sorted) - 1), x) \o <<last>>
            ELSE sorted \o <<x>>

\* A slip: the sort left out.
LeftUnsorted(s) == s

RECURSIVE SortByRevenue(_)
SortByRevenue(s) ==
    IF s = <<>> THEN <<>>
    ELSE InsertByRevenue(SortByRevenue(SubSeq(s, 1, Len(s) - 1)), s[Len(s)])

\* Object.values(productSales) sorted by revenue, before the slice.
rankedProducts(fo) ==
    LET ps == productSales(fo)
    IN SortByRevenue([i \in 1..Len(ps) |-> ps[i].val])

\* A slip: the slice one entry short.
topProductsShort(fo) == SliceFirst(rankedProducts(fo), TopLimit - 1)

topProducts(fo) == SliceFirst(rankedProducts(fo), TopLimit)

\* products.find(p => p.id === item.productId)
FindProduct(products, productId) ==
    LET hits == {i \in 1..Len(products) : products[i].id = productId}
    IN IF hits = {} THEN None
       ELSE Some(products[CHOOSE i \in hits : \A j \in hits : i <= j])

\* categories.find(c => c.id === product.categoryId)
FindCategory(categories, categoryId) ==
    LET hits == {i \in 1..Len(categories) : Some(categories[i].id) = categoryId}
    IN IF hits = {} THEN None
       ELSE Some(categories[CHOOSE i \in hits : \A j \in hits : i <= j])

\* A slip: another label for a missing category.
CategoryNameOrNone(category) ==
    IF IsSome(category) /\ IsSome(category[1].name) /\ category[1].name[1] # ""
    THEN category[1].name[1]
    ELSE "None"

\* category?.name || 'Unknown'
CategoryName(category) ==
    IF IsSome(category) /\ IsSome(category[1].name) /\ category[1].name[1] # ""
    THEN category[1].name[1]
    ELSE "Unknown"

\* A slip: the groups keyed by the category's id, not its name.
AddCategoryRevenueById(cr, item, products, categories) ==
    LET product == FindProduct(products, item.productId)
    IN IF IsSome(product)
       THEN LET category == FindCategory(categories, product[1].categoryId)
                key == IF IsSome(category) THEN category[1].id ELSE "Unknown"
                old == IF HasKey(cr, key) THEN Get(cr, key) ELSE 0
            IN Put(cr, key, old + ItemRevenue(item))
       ELSE cr

\* if (product) { ...; categoryRevenue[name] = (categoryRevenue[name] || 0) + price * quantity }
AddCategoryRevenue(cr, item, products, categories) ==
    LET product == FindProduct(products, item.productId)
    IN IF IsSome(product)
       THEN LET categoryName == CategoryName(FindCategory(categories, product[1].categoryId))
                old == IF HasKey(cr, categoryName) THEN Get(cr, categoryName) ELSE 0
            IN Put(cr, categoryName, old + ItemRevenue(item))
       ELSE cr

RECURSIVE FoldCategories(_, _, _, _)
FoldCategories(cr, items, products, categories) ==
    IF items = <<>> THEN cr
    ELSE FoldCategories(AddCategoryRevenue(cr, Head(items), products, categories),
                        Tail(items), products, categories)

categoryRevenue(fo, products, categories) ==
    FoldCategories(<<>>, LineItems(fo), products, categories)

revenueByCategory(fo, products, categories) ==
    LET cr == categoryRevenue(fo, products, categories)
    IN [i \in 1..Len(cr) |-> [name |-> cr[i].key, value |-> cr[i].val]]

\* order.createdAt?.toDate?.()?.toLocaleDateString() || 'Unknown'
DateKey(order, loc) ==
    IF IsSome(order.createdAt) THEN ToLocaleDateString(order.createdAt[1], loc)
    ELSE UnknownDate

\* A slip: every order opens a bucket of its own.
AddToDateAlone(sd, order, loc) ==
    Append(sd, [date |-> DateKey(order, loc), sales |-> 1, revenue |-> Amount(order)])

\* if (!salesByDate[date]) salesByDate[date] = {sales: 0, revenue: 0};
\* salesByDate[date].sales += 1; salesByDate[date].revenue += order.totalAmount || 0
AddToDate(sd, order, loc) ==
    LET date == DateKey(order, loc)
        hits == {i \in 1..Len(sd) : sd[i].date = date}
    IN IF hits = {}
       THEN Append(sd, [date |-> date, sales |-> 1, revenue |-> Amount(order)])
       ELSE [i \in 1..Len(sd) |->
                IF i \in hits
                THEN [date |-> date, sales |-> sd[i].sales + 1,
                      revenue |-> sd[i].revenue + Amount(order)]
                ELSE sd[i]]

RECURSIVE FoldDates(_, _, _)
FoldDates(sd, fo, loc) ==
    IF fo = <<>> THEN sd ELSE FoldDates(AddToDate(sd, Head(fo), loc), Tail(fo), loc)

\* Object.entries(salesByDate).map(([date, data]) => ({date, ...data}))
salesByDate(fo, loc) == FoldDates(<<>>, fo, loc)

\* new Date(a.date).getTime() - new Date(b.date).getTime() < 0; a NaN difference
\* (either date Invalid) is no "less".
DateBefore(a, b) ==
    LET ta == DateParseTime(a.date)
        tb == DateParseTime(b.date)
    IN IsSome(ta) /\ IsSome(tb) /\ ta[1] - tb[1] < 0

\* Array.prototype.sort on fewer than 64 elements as V8 performs it: the leading
\* run is found (and reversed when strictly descending), then each remaining
\* element is placed by binary insertion. Every comparison asks only whether the
\* comparator's result is below 0, a NaN result being read as 0. With a
\* consistent comparator this is the stable sort every engine produces; with
\* an inconsistent one (a NaN against an unparseable date) the standard leaves
\* the order to the engine.
RECURSIVE RunEnd(_, _, _)
RunEnd(s, i, descending) ==
    IF i = Len(s) THEN i
    ELSE IF descending = DateBefore(s[i + 1], s[i]) THEN RunEnd(s, i + 1, descending)
    ELSE i

RECURSIVE BinaryPlace(_, _, _, _)
BinaryPlace(sorted, pivot, left, right) ==
    IF left >= right THEN left
    ELSE LET mid == left + ((right - left) \div 2)
         IN IF DateBefore(pivot, sorted[mid + 1])
            THEN BinaryPlace(sorted, pivot, left, mid)
            ELSE BinaryPlace(sorted, pivot, mid + 1, right)

InsertByDate(sorted, x) ==
    LET at == BinaryPlace(sorted, x, 0, Len(sorted))
    IN SubSeq(sorted, 1, at) \o <<x>> \o SubSeq(sorted, at + 1, Len(sorted))

RECURSIVE InsertAllByDate(_, _)
InsertAllByDate(sorted, rest) ==
    IF rest = <<>> THEN sorted
    ELSE InsertAllByDate(InsertByDate(sorted, Head(rest)), Tail(rest))

SortByDate(s) ==
    IF Len(s) < 2 THEN s
    ELSE LET descending == DateBefore(s[2], s[1])
             runLength == RunEnd(s, 2, descending)
             first == SubSeq(s, 1, runLength)
         IN InsertAllByDate(IF descending THEN Reverse(first) ELSE first,
                            SubSeq(s, runLength + 1, Len(s)))

salesOverTime(fo, loc) == SliceLast(SortByDate(salesByDate(fo, loc)), SeriesLimit)

\* A slip: the status folded to one letter case.
StatusOfFolded(order) ==
    IF IsSome(order.status) /\ order.status[1] # ""
    THEN (IF order.status[1] = "pending" THEN "Pending" ELSE order.status[1])
    ELSE "Unknown"

\* const status = order.status || 'Unknown'
StatusOf(order) ==
    IF IsSome(order.status) /\ order.status[1] # "" THEN order.status[1] ELSE "Unknown"

\* A slip: statusCount[status] = 1.
RECURSIVE FoldStatusOverwriting(_, _)
FoldStatusOverwriting(sc, fo) ==
    IF fo = <<>> THEN sc
    ELSE FoldStatusOverwriting(Put(sc, StatusOf(Head(fo)), 1), Tail(fo))

RECURSIVE FoldStatus(_, _)
FoldStatus(sc, fo) ==
    IF fo = <<>> THEN sc
    ELSE LET status == StatusOf(Head(fo))
             old == IF HasKey(sc, status) THEN Get(sc, status) ELSE 0
         IN FoldStatus(Put(sc, status, old + 1), Tail(fo))

statusCount(fo) == FoldStatus(<<>>, fo)

ordersByStatus(fo) ==
    LET sc == statusCount(fo)
    IN [i \in 1..Len(sc) |-> [status |-> sc[i].key, count |-> sc[i].val]]

\* The object handed to setAnalytics.
Report(orders, products, categories, nowT, range, loc) ==
    LET fo == filteredOrders(orders, nowT, range)
    IN [totalRevenue |-> totalRevenue(fo),
        totalOrders |-> totalOrders(fo),
        averageOrderValue |-> averageOrderValue(fo),
        topProducts |-> topProducts(fo),
        revenueByCategory |-> revenueByCategory(fo, products, categories),
        salesOverTime |-> salesOverTime(fo, loc),
        ordersByStatus |-> ordersByStatus(fo)]

\* useState<AnalyticsData>({ totalRevenue: 0, ..., ordersByStatus: [] })
InitialAnalytics ==
    [totalRevenue |-> 0,
     totalOrders |-> 0,
     averageOrderValue |-> Zero,
     topProducts |-> <<>>,
     revenueByCategory |-> <<>>,
     salesOverTime |-> <<>>,
     ordersByStatus |-> <<>>]

-----------------------------------------------------------------------------
(* The page: React state, the effect, the run and its two ends. *)

\* <SelectItem value="7" | "30" | "90" | "365">
SelectItems == {"7", "30", "90", "365"}

\* The two returns of the component: the spinner while loading, else the report
\* with the Select. There is no third branch.
View == IF loading THEN "spinner" ELSE "report"

\* The CustomOrders page while it is not on screen.
NotMounted ==
    [docs |-> <<>>, loading |-> TRUE, orders |-> <<>>, fetched |-> <<>>,
     calls |-> <<>>, started |-> 0, phase |-> "unmounted"]

NoOutcome ==
    [kind |-> "none", range |-> "", now |-> 0,
     snapshot |-> [orders |-> <<>>, products |-> <<>>, categories |-> <<>>],
     filtered |-> <<>>]

\* useEffect(() => { fetchAnalytics(); }, [timeRange]) up to the await:
\* setLoading(true) and the three getDocs are issued.
StartFetch ==
    /\ run.phase = "effect"
    /\ loading' = TRUE
    /\ run' = [phase |-> "reading", range |-> timeRange]
    /\ UNCHANGED <<store, now, locale, timeRange, analytics, outcome, customOrders>>

\* Promise.all resolves: the rest of the try block, then finally. The
\* computation either raises (catch: console.error only) or reaches setAnalytics.
ReadsResolve ==
    /\ run.phase = "reading"
    /\ LET fo == filteredOrders(store.orders, now, run.range)
       IN /\ analytics' =
                IF Raises(fo) THEN analytics
                ELSE Report(store.orders, store.products, store.categories,
                            now, run.range, locale)
          /\ outcome' = [kind |-> IF Raises(fo) THEN "raised" ELSE "ok",
                         range |-> run.range, now |-> now,
                         snapshot |-> store, filtered |-> fo]
    /\ loading' = FALSE
    /\ run' = [phase |-> "idle", range |-> run.range]
    /\ UNCHANGED <<store, now, locale, timeRange, customOrders>>

\* A slip: setLoading(false) at the end of the try block, not in finally.
ReadsRejectSpinning ==
    /\ run.phase = "reading"
    /\ outcome' = [NoOutcome EXCEPT !.kind = "readFailed", !.range = run.range, !.now = now]
    /\ run' = [phase |-> "idle", range |-> run.range]
    /\ UNCHANGED <<store, now, locale, loading, timeRange, analytics, customOrders>>

\* A slip: a failed read clearing the report.
ReadsRejectClearing ==
    /\ run.phase = "reading"
    /\ loading' = FALSE
    /\ analytics' = InitialAnalytics
    /\ outcome' = [NoOutcome EXCEPT !.kind = "readFailed", !.range = run.range, !.now = now]
    /\ run' = [phase |-> "idle", range |-> run.range]
    /\ UNCHANGED <<store, now, locale, timeRange, customOrders>>

\* Promise.all rejects (one of the three reads failed): catch logs, finally
\* setLoading(false). Nothing else is set.
ReadsReject ==
    /\ run.phase = "reading"
    /\ loading' = FALSE
    /\ outcome' = [NoOutcome EXCEPT !.kind = "readFailed", !.range = run.range, !.now = now]
    /\ run' = [phase |-> "idle", range |-> run.range]
    /\ UNCHANGED <<store, now, locale, timeRange, analytics, customOrders>>

\* <Select value={timeRange} onValueChange={setTimeRange}>: rendered only in the
\* report view; a changed value re-renders and schedules the effect.
SelectTimeRange ==
    /\ View = "report"
    /\ run.phase = "idle"
    /\ \E v \in SelectItems \ {timeRange} :
          /\ timeRange' = v
          /\ run' = [phase |-> "effect", range |-> v]
    /\ UNCHANGED <<store, now, locale, loading, analytics, outcome, customOrders>>

-----------------------------------------------------------------------------
(* Inputs: instants, documents and collections the model draws from. *)

\* The instant `tod` ticks after local midnight of day d of month m of 2026.
At(m, d, tod) == Midnight(Jan1_2026 + DaysBeforeMonth(m) + d - 1) + tod

NoProducts == [kind |-> "absent", items |-> <<>>]
ItemList(items) == [kind |-> "array", items |-> items]
NotAList == [kind |-> "other", items |-> <<>>]

Order(createdAt, totalAmount, status, products) ==
    [createdAt |-> createdAt, totalAmount |-> totalAmount,
     status |-> status, products |-> products]

\* ({ id: doc.id, ...doc.data() }): the documents in the order getDocs lists them.
WithIds(docs) == [i \in 1..Len(docs) |-> [id |-> i] @@ docs[i]]

SeqsUpTo(U, n) == UNION {[1..k -> U] : k \in 0..n}

Item(productId, name, price, quantity) ==
    [productId |-> productId, name |-> name, price |-> price, quantity |-> quantity]

Product(id, categoryId) == [id |-> id, categoryId |-> categoryId]
Category(id, name) == [id |-> id, name |-> name]

AllProducts ==
    <<Product("pA", Some("c1")), Product("pB", Some("c2")), Product("pC", Some("cX")),
      Product("pD", None), Product("10", Some("c1")), Product("2", Some("c2"))>>

Catalogs ==
    { [products |-> AllProducts,
       categories |-> <<Category("c1", Some("Shirts")), Category("c2", Some("Hoodies"))>>],
      [products |-> AllProducts,
       categories |-> <<Category("c1", Some("Shirts")), Category("c2", Some("Shirts")),
                        Category("cX", None)>>],
      [products |-> AllProducts,
       categories |-> <<Category("c1", Some("Unknown")), Category("c2", Some("Hoodies"))>>],
      [products |-> <<>>, categories |-> <<>>] }

Input(orders, catalog, nowT, range, loc) ==
    [orders |-> WithIds(orders), products |-> catalog.products,
     categories |-> catalog.categories, now |-> nowT, range |-> range, locale |-> loc]

Locales == {"en-US", "en-GB"}

\* Window strings: the four the Select offers, and two more positive integers.
Ranges == SelectItems \cup {"1", "36500"}

\* The time window filter: orders around the cutoffs of a run on 2 February.
FilterStamps ==
    {None, Some(At(1, 3, 0)), Some(At(1, 3, 1)), Some(At(2, 1, 0)),
     Some(At(2, 1, 1)), Some(At(2, 2, 0))}

FilterOrders ==
    {Order(c, a, Some("Pending"), NoProducts) : c \in FilterStamps, a \in {Some(50), Some(30)}}
    \cup {Order(Some(At(2, 1, 0)), None, None, NoProducts)}

FilterInputs ==
    {Input(os, CHOOSE c \in Catalogs : c.products = <<>>, At(2, 2, 1), r, loc) :
        os \in SeqsUpTo(FilterOrders, MaxFilterOrders), r \in Ranges, loc \in Locales}

\* Line items: well-formed, dangling, null, and lists that are no lists.
ItemA == Item("pA", "Shirt", 50, 2)
ItemB == Item("pB", "Hoodie", 30, 1)
ItemC == Item("pC", "Cap", 20, 1)
ItemZ == Item("pZ", "Mug", 10, 3)

ItemLists ==
    {NoProducts, NotAList, ItemList(<<>>), ItemList(<<None>>),
     ItemList(<<Some(ItemA)>>), ItemList(<<Some(ItemB)>>), ItemList(<<Some(ItemC)>>),
     ItemList(<<Some(ItemZ)>>), ItemList(<<Some(ItemA), Some(ItemB)>>),
     ItemList(<<Some(ItemA), Some(ItemZ)>>), ItemList(<<Some(ItemB), Some(ItemA)>>),
     ItemList(<<Some(ItemA), None>>)}

ItemOrders ==
    {Order(Some(At(2, 2, 0)), Some(100), Some("Pending"), l) : l \in ItemLists}
    \cup {Order(Some(At(1, 3, 0)), Some(100), Some("Pending"), ItemList(<<None>>)),
          Order(None, Some(100), None, NotAList)}

ItemInputs ==
    {Input(os, c, At(2, 2, 1), "30", "en-US") :
        os \in SeqsUpTo(ItemOrders, MaxItemOrders), c \in Catalogs}

\* Time series: one order on each of the n most recent days of a list of days,
\* read oldest first or newest first, every third order without a totalAmount.
\* The second list holds the days of
\* January and February whose day of the month is at most 12.
RECURSIVE DayList(_, _)
DayList(last, n) == IF n = 0 THEN <<>> ELSE DayList(last - 1, n - 1) \o <<last>>

ConsecutiveDays == DayList(DayOf(At(2, 12, 0)), 31 + 12)
EarlyDays == DayList(DayOf(At(1, 12, 0)), 12) \o DayList(DayOf(At(2, 12, 0)), 12)

SeriesOrders(days, n) ==
    [i \in 1..n |-> Order(Some(Midnight(days[Len(days) - n + i]) + 1),
                          IF i % 3 = 0 THEN None ELSE Some(2 + i),
                          Some("Pending"), NoProducts)]

\* An order without a timestamp put before, after the first of, or after a
\* list of orders.
Unstamped == Order(None, Some(7), Some("Pending"), NoProducts)

WithUnstamped(orders, at) ==
    CASE at = "first" -> <<Unstamped>> \o orders
      [] at = "second" -> SubSeq(orders, 1, Min(1, Len(orders))) \o <<Unstamped>>
                           \o SubSeq(orders, 2, Len(orders))
      [] at = "last" -> orders \o <<Unstamped>>
      [] OTHER -> orders

SeriesInputs ==
    {Input(WithUnstamped(IF rev THEN Reverse(SeriesOrders(days, n)) ELSE SeriesOrders(days, n), at),
           CHOOSE c \in Catalogs : c.products = <<>>, At(2, 12, 1), r, loc) :
        days \in {ConsecutiveDays, EarlyDays}, n \in 0..MaxSeriesDates,
        rev \in BOOLEAN, at \in {"none", "first", "second", "last"},
        r \in Ranges, loc \in Locales}

\* Many products: one order whose n line items name n distinct products, with
\* rising, falling or equal revenue, alone or followed by a second order that
\* names the first two again.
ProductIds == <<"pA", "pB", "pC", "pZ", "10", "pD", "2", "pE", "pF">>

ManyItems(n, mode) ==
    [i \in 1..n |-> Some(Item(ProductIds[i], ProductIds[i],
                              CASE mode = "rising" -> 10 * i
                                [] mode = "falling" -> 10 * (n + 1 - i)
                                [] OTHER -> 10,
                              1))]

ProductInputs ==
    {Input(<<Order(Some(At(2, 2, 0)), Some(100), Some("Pending"), ItemList(ManyItems(n, mode)))>>
           \o (IF again
               THEN <<Order(Some(At(2, 1, 0)), Some(40), Some("Shipped"),
                            ItemList(ManyItems(Min(n, 2), mode)))>>
               ELSE <<>>),
           c, At(2, 2, 1), "30", "en-US") :
        n \in 0..MaxItemProducts, mode \in {"rising", "falling", "flat"},
        again \in BOOLEAN, c \in Catalogs}

\* Statuses: orders inside and outside a window of 30 days whose status is a
\* label, the same label in another letter case, the sentinel's own text,
\* the empty string, or missing.
StatusOrders ==
    {Order(Some(c), Some(20), st, NoProducts) :
        c \in {At(2, 2, 0), At(1, 2, 0)},
        st \in {Some("Pending"), Some("pending"), Some("Unknown"), Some(""), None}}

StatusInputs ==
    {Input(os, CHOOSE c \in Catalogs : c.products = <<>>, At(2, 2, 1), "30", "en-US") :
        os \in SeqsUpTo(StatusOrders, MaxStatusOrders)}

\* The families of inputs.
ReportInputs == {FilterInputs, ItemInputs, SeriesInputs, ProductInputs, StatusInputs}

-----------------------------------------------------------------------------
(* The report computation on its own: one run of fetchAnalytics whose reads *)
(* succeed, on inputs drawn from ReportInputs.                              *)

InitReport ==
    \E family \in ReportInputs : \E inp \in family :
        /\ store = [orders |-> inp.orders, products |-> inp.products,
                    categories |-> inp.categories]
        /\ now = inp.now
        /\ locale = inp.locale
        /\ timeRange = inp.range
        /\ loading = TRUE
        /\ analytics = InitialAnalytics
        /\ run = [phase |-> "effect", range |-> inp.range]
        /\ outcome = NoOutcome
        /\ customOrders = NotMounted

NextReport == StartFetch \/ ReadsResolve

SpecReport == InitReport /\ [][NextReport]_vars

-----------------------------------------------------------------------------
(* The page over time: the run started on mount, window selections, reads   *)
(* that fail, a clock that advances and orders written to the store by      *)
(* other clients between runs.                                              *)

PageOrders ==
    {Order(Some(At(2, 2, 0)), Some(100), Some("Pending"), ItemList(<<Some(ItemA)>>)),
     Order(Some(At(1, 3, 1)), Some(30), None, ItemList(<<None>>)),
     Order(Some(At(1, 3, 1)), Some(50), Some("Shipped"), NoProducts)}

\* new Date() is read anew by every run.
Tick ==
    /\ now < At(2, 2, 1) + MaxTicks
    /\ now' = now + 1
    /\ UNCHANGED <<store, locale, loading, timeRange, analytics, run, outcome, customOrders>>

\* getDocs returns the collection as it is when the run reads it.
PlaceOrder ==
    /\ Len(store.orders) < MaxPageOrders
    /\ \E o \in PageOrders :
          store' = [store EXCEPT !.orders = WithIds(Append(store.orders, o))]
    /\ UNCHANGED <<now, locale, loading, timeRange, analytics, run, outcome, customOrders>>

Init ==
    /\ store = [orders |-> <<>>, products |-> AllProducts,
                categories |-> <<Category("c1", Some("Shirts"))>>]
    /\ now = At(2, 2, 1)
    /\ locale \in Locales
    /\ loading = TRUE
    /\ timeRange = "30"
    /\ analytics = InitialAnalytics
    /\ run = [phase |-> "effect", range |-> "30"]
    /\ outcome = NoOutcome
    /\ customOrders = NotMounted

Next ==
    \/ StartFetch
    \/ ReadsResolve
    \/ ReadsReject
    \/ SelectTimeRange
    \/ Tick
    \/ PlaceOrder

Spec == Init /\ [][Next]_vars

\* The page when effects run once scheduled and the three reads settle.
SpecLive == Spec /\ WF_vars(StartFetch) /\ WF_vars(ReadsReject \/ ReadsResolve)

-----------------------------------------------------------------------------
(* The CustomOrders page: the list read on mount, and updateOrderStatus and  *)
(* handleDelete calls, each of which writes to the store, awaits the write   *)
(* and then sets the list from the `orders` of the render that started it.   *)

MaxCalls == 3

\* <SelectItem value="Pending"> ... <SelectItem value="Cancelled">
OrderStatuses == {"Pending", "Processing", "Completed", "Cancelled"}

CustomOrder(id, status) == [id |-> id, status |-> status]

\* The customOrders collection when the page mounts, newest first.
CustomCollections ==
    {<<CustomOrder("o1", "Pending")>>}
    \cup {<<CustomOrder("o1", s1), CustomOrder("o2", s2)>> :
             s1 \in {"Pending", "Processing"}, s2 \in {"Pending", "Completed"}}

\* orders.map(order => order.id === orderId ? {...order, status: newStatus} : order)
WithStatusSet(list, orderId, newStatus) ==
    [i \in 1..Len(list) |->
        IF list[i].id = orderId THEN [list[i] EXCEPT !.status = newStatus] ELSE list[i]]

\* orders.filter(order => order.id !== orderId)
WithoutOrder(list, orderId) == SelectSeq(list, LAMBDA o : o.id # orderId)

InCollection(orderId) ==
    \E i \in 1..Len(customOrders.docs) : customOrders.docs[i].id = orderId

\* fetchOrders: getDocs resolves, setOrders(ordersData), finally setLoading(false).
FetchOrdersResolves ==
    /\ customOrders.phase = "fetching"
    /\ customOrders' = [customOrders EXCEPT !.orders = customOrders.docs,
                                            !.fetched = customOrders.docs,
                                            !.loading = FALSE,
                                            !.phase = "settled"]
    /\ UNCHANGED analyticsVars

\* fetchOrders: getDocs rejects; catch reports, finally setLoading(false).
FetchOrdersRejects ==
    /\ customOrders.phase = "fetching"
    /\ customOrders' = [customOrders EXCEPT !.loading = FALSE, !.phase = "settled"]
    /\ UNCHANGED analyticsVars

\* updateOrderStatus up to its await: called from the Select of a rendered row
\* with a value other than the row's, it issues updateDoc and keeps the
\* `orders` of the render it was created in.
updateOrderStatus ==
    /\ customOrders.phase = "settled"
    /\ ~customOrders.loading
    /\ customOrders.started < MaxCalls
    /\ \E i \in 1..Len(customOrders.orders) :
          \E newStatus \in OrderStatuses \ {customOrders.orders[i].status} :
             customOrders' =
                 [customOrders EXCEPT
                     !.calls = Append(@, [kind |-> "update",
                                          orderId |-> customOrders.orders[i].id,
                                          newStatus |-> newStatus,
                                          orders |-> customOrders.orders]),
                     !.started = @ + 1]
    /\ UNCHANGED analyticsVars

\* handleDelete up to its await: called from a rendered row, confirm() accepted
\* (declined, it returns and nothing changes), it issues deleteDoc and keeps
\* the `orders` of the render it was created in.
handleDelete ==
    /\ customOrders.phase = "settled"
    /\ ~customOrders.loading
    /\ customOrders.started < MaxCalls
    /\ \E i \in 1..Len(customOrders.orders) :
          customOrders' =
              [customOrders EXCEPT
                  !.calls = Append(@, [kind |-> "delete",
                                       orderId |-> customOrders.orders[i].id,
                                       newStatus |-> "",
                                       orders |-> customOrders.orders]),
                  !.started = @ + 1]
    /\ UNCHANGED analyticsVars

\* The store acknowledges a client's writes in the order they were issued.
\* updateDoc resolves (the document exists): the rest of the try block.
UpdateDocResolves ==
    /\ customOrders.calls # <<>>
    /\ LET call == Head(customOrders.calls)
       IN /\ call.kind = "update"
          /\ InCollection(call.orderId)
          /\ customOrders' =
                 [customOrders EXCEPT
                     !.docs = WithStatusSet(@, call.orderId, call.newStatus),
                     !.orders = WithStatusSet(call.orders, call.orderId, call.newStatus),
                     !.calls = Tail(@)]
    /\ UNCHANGED analyticsVars

\* deleteDoc resolves: the rest of the try block.
DeleteDocResolves ==
    /\ customOrders.calls # <<>>
    /\ LET call == Head(customOrders.calls)
       IN /\ call.kind = "delete"
          /\ customOrders' =
                 [customOrders EXCEPT
                     !.docs = WithoutOrder(@, call.orderId),
                     !.orders = WithoutOrder(call.orders, call.orderId),
                     !.calls = Tail(@)]
    /\ UNCHANGED analyticsVars

\* updateDoc or deleteDoc rejects: catch logs and shows a toast; neither the
\* store nor the list is written.
WriteRejects ==
    /\ customOrders.calls # <<>>
    /\ customOrders' = [customOrders EXCEPT !.calls = Tail(@)]
    /\ UNCHANGED analyticsVars

InitOrders ==
    /\ store = [orders |-> <<>>, products |-> <<>>, categories |-> <<>>]
    /\ now = At(2, 2, 1)
    /\ locale = "en-US"
    /\ loading = TRUE
    /\ timeRange = "30"
    /\ analytics = InitialAnalytics
    /\ run = [phase |-> "idle", range |-> "30"]
    /\ outcome = NoOutcome
    /\ \E docs \in CustomCollections :
          customOrders = [NotMounted EXCEPT !.docs = docs, !.phase = "fetching"]

NextOrders ==
    \/ FetchOrdersResolves
    \/ FetchOrdersRejects
    \/ updateOrderStatus
    \/ handleDelete
    \/ UpdateDocResolves
    \/ DeleteDocResolves
    \/ WriteRejects

SpecOrders == InitOrders /\ [][NextOrders]_vars

-----------------------------------------------------------------------------
(* What the claims speak of, stated from the last run's inputs. *)

\* The last run's reads succeeded and it reached setAnalytics.
Computed == outcome.kind = "ok"

\* The last run's reads succeeded (its computation may have raised).
ReadsDone == outcome.kind \in {"ok", "raised"}

Snapshot == outcome.snapshot
Kept == outcome.filtered

\* now minus windowDays days, as an instant.
Cutoff == outcome.now - ParseInt(outcome.range) * TicksPerDay

IsKept(order) == \E i \in 1..Len(Kept) : Kept[i].id = order.id

\* The line items of the retained orders, by position.
KeptItemAt ==
    UNION {{<<i, j>> : j \in 1..(IF Kept[i].products.kind = "array"
                                 THEN Len(Kept[i].products.items) ELSE 0)} :
           i \in 1..Len(Kept)}

ItemAt(p) == Kept[p[1]].products.items[p[2]][1]

RECURSIVE RevenueOf(_)
RevenueOf(ps) ==
    IF ps = {} THEN 0
    ELSE LET p == CHOOSE p \in ps : TRUE
         IN ItemAt(p).price * ItemAt(p).quantity + RevenueOf(ps \ {p})

KeptProductIds == {ItemAt(p).productId : p \in KeptItemAt}

RevenueOfProduct(id) == RevenueOf({p \in KeptItemAt : ItemAt(p).productId = id})

RECURSIVE RevenueOfProducts(_)
RevenueOfProducts(ids) ==
    IF ids = {} THEN 0
    ELSE LET id == CHOOSE id \in ids : TRUE
         IN RevenueOfProduct(id) + RevenueOfProducts(ids \ {id})

\* The category name a line item resolves to: productId -> Product ->
\* categoryId -> Category.name, "Unknown" when either lookup fails.
ResolvedName(item) ==
    LET ps == {k \in 1..Len(Snapshot.products) : Snapshot.products[k].id = item.productId}
        cs == {c \in 1..Len(Snapshot.categories) :
                  /\ ps # {}
                  /\ \E k \in ps : Snapshot.products[k].categoryId = Some(Snapshot.categories[c].id)
                  /\ IsSome(Snapshot.categories[c].name)}
    IN IF cs = {} THEN "Unknown"
       ELSE Snapshot.categories[CHOOSE c \in cs : \A d \in cs : c <= d].name[1]

HasNoProduct(item) ==
    \A k \in 1..Len(Snapshot.products) : Snapshot.products[k].id # item.productId

SumOfRevenue(entries) == Sum([i \in 1..Len(entries) |-> entries[i].revenue])
SumOfValue(entries) == Sum([i \in 1..Len(entries) |-> entries[i].value])

\* The calendar days of the retained orders that carry a timestamp.
KeptDays == {DayOf(Kept[i].createdAt[1]) : i \in {k \in 1..Len(Kept) : IsSome(Kept[k].createdAt)}}

AllKeptStamped == \A i \in 1..Len(Kept) : IsSome(Kept[i].createdAt)

\* The n latest of a set of days, and the i-th earliest of a set of days.
Latest(days, n) == {d \in days : Cardinality({e \in days : e > d}) < n}
Nth(days, i) == CHOOSE d \in days : Cardinality({e \in days : e < d}) = i - 1

\* The calendar day a date string of the series names to the viewer who reads
\* it in the locale that printed it.
DayNamed(s, loc) ==
    IF loc = "en-US" THEN Jan1_2026 + DaysBeforeMonth(s[1]) + s[2] - 1
    ELSE Jan1_2026 + DaysBeforeMonth(s[2]) + s[1] - 1

\* Every date string of the retained orders is one the parser reads as a date.
AllDatesParse ==
    \A d \in KeptDays : IsSome(DateParseTime(ToLocaleDateString(Midnight(d), locale)))

-----------------------------------------------------------------------------
(* Claims. *)

\* C1: every line item of a retained order whose productId matches no product
\* of the snapshot has its price*quantity added to the revenueByCategory entry
\* named "Unknown": when there is such an item, the entry exists and holds the
\* revenue of all the items that resolve to no category name.
C1_AbsentProductCountsAsUnknown ==
    Computed =>
        LET unknown == {p \in KeptItemAt : ResolvedName(ItemAt(p)) = "Unknown"}
        IN (\E p \in KeptItemAt : HasNoProduct(ItemAt(p))) =>
              \E i \in 1..Len(analytics.revenueByCategory) :
                  /\ analytics.revenueByCategory[i].name = "Unknown"
                  /\ analytics.revenueByCategory[i].value = RevenueOf(unknown)

\* C2: the values of revenueByCategory sum to the total price*quantity of the
\* line items of the retained orders.
C2_CategoryRevenueReconciles ==
    Computed => SumOfValue(analytics.revenueByCategory) = RevenueOf(KeptItemAt)

\* C3 as claimed: the revenue fields of topProducts sum to the total
\* price*quantity of the line items of the retained orders, also with more
\* than 5 distinct productIds.
C3_TopProductsReconcile ==
    Computed => SumOfRevenue(analytics.topProducts) = RevenueOf(KeptItemAt)

\* C3 as amended: with at most 5 distinct productIds the revenue fields of
\* topProducts sum to the total line-item revenue; with more than 5 they sum to
\* the revenue of the five productIds with the highest revenue, a five no
\* other five exceeds.
C3_TopProductsReconcileUpToLimit ==
    Computed =>
        IF Cardinality(KeptProductIds) <= TopLimit
        THEN SumOfRevenue(analytics.topProducts) = RevenueOf(KeptItemAt)
        ELSE /\ \E five \in SUBSET KeptProductIds :
                   /\ Cardinality(five) = TopLimit
                   /\ SumOfRevenue(analytics.topProducts) = RevenueOfProducts(five)
             /\ \A five \in SUBSET KeptProductIds :
                   Cardinality(five) = TopLimit =>
                       RevenueOfProducts(five) <= SumOfRevenue(analytics.topProducts)

\* C3 witness: a report over more than 5 distinct productIds whose topProducts
\* leave revenue out.
C3_Witness ==
    /\ Computed
    /\ Cardinality(KeptProductIds) > TopLimit
    /\ Len(analytics.topProducts) = TopLimit
    /\ SumOfRevenue(analytics.topProducts) < RevenueOf(KeptItemAt)

\* C4: after a run whose reads failed the page shows an error state, not the
\* report view.
C4_ReadFailureShowsErrorState ==
    (run.phase = "idle" /\ outcome.kind = "readFailed") => View = "error"

\* C5: once the reads have succeeded the run reaches setAnalytics, whatever
\* the records hold.
C5_ComputationNeverRaises ==
    (run.phase = "idle" /\ ReadsDone) =>
        /\ outcome.kind = "ok"
        /\ analytics.totalOrders = Len(Kept)

\* C6: the cutoff is the start of a calendar day, so the orders created on one
\* calendar day are all retained or all excluded. (Stated for the windows the
\* page offers.)
C6_WholeDaysRetained ==
    (ReadsDone /\ outcome.range \in SelectItems) =>
        \A i, j \in 1..Len(Snapshot.orders) :
            LET a == Snapshot.orders[i]
                b == Snapshot.orders[j]
            IN (/\ IsSome(a.createdAt) /\ IsSome(b.createdAt)
                /\ DayOf(a.createdAt[1]) = DayOf(b.createdAt[1]))
               => (IsKept(a) <=> IsKept(b))

\* C7: an order with a timestamp is retained iff its createdAt is at or after
\* now minus windowDays days; the retained orders keep their relative order.
C7_RetainedIffAtOrAfterCutoff ==
    ReadsDone =>
        /\ \A i \in 1..Len(Snapshot.orders) :
              IsSome(Snapshot.orders[i].createdAt) =>
                  (IsKept(Snapshot.orders[i]) <=> Snapshot.orders[i].createdAt[1] >= Cutoff)
        /\ \A i \in 1..Len(Kept) : Kept[i] \in Range(Snapshot.orders)
        /\ \A i, j \in 1..Len(Kept) : i < j => Kept[i].id < Kept[j].id

\* C7 witness: a run that retained an order created exactly at the cutoff and
\* excluded an order created before it.
C7_Witness ==
    /\ ReadsDone
    /\ \E i \in 1..Len(Kept) : Kept[i].createdAt = Some(Cutoff)
    /\ \E i \in 1..Len(Snapshot.orders) :
          /\ IsSome(Snapshot.orders[i].createdAt)
          /\ ~IsKept(Snapshot.orders[i])

C9_SeriesKeepsLatestDates ==
    (Computed /\ AllKeptStamped /\ AllDatesParse) =>
        LET sot == analytics.salesOverTime
        IN IF Cardinality(KeptDays) > SeriesLimit
           THEN /\ Len(sot) = SeriesLimit
                /\ \A i \in 1..Len(sot) :
                      sot[i].date =
                          ToLocaleDateString(Midnight(Nth(Latest(KeptDays, SeriesLimit), i)), locale)
           ELSE {sot[i].date : i \in 1..Len(sot)} =
                    {ToLocaleDateString(Midnight(d), locale) : d \in KeptDays}

\* C10: salesOverTime has at most 14 entries, no two with the same date, in
\* strictly ascending calendar-date order. (Stated for runs whose retained
\* orders all carry a timestamp and whose date strings all parse.)
C10_SeriesBoundedAscending ==
    (Computed /\ AllKeptStamped /\ AllDatesParse) =>
        LET sot == analytics.salesOverTime
        IN /\ Len(sot) <= SeriesLimit
           /\ \A i, j \in 1..Len(sot) :
                 i < j => DayNamed(sot[i].date, locale) < DayNamed(sot[j].date, locale)

StandsFor(entries, ids) ==
    /\ Cardinality(ids) = Len(entries)
    /\ \A i \in 1..Len(entries) :
          Cardinality({k \in 1..Len(entries) : entries[k].revenue = entries[i].revenue})
              = Cardinality({id \in ids : RevenueOfProduct(id) = entries[i].revenue})

\* C12: topProducts has at most 5 entries, exactly min(5, number of distinct
\* productIds among the retained line items); each entry's revenue is at least
\* the revenue of the entry after it and of every product left out. (Stated
\* for the runs that set a report.)
C12_TopProductsBoundedRanked ==
    Computed =>
        LET tp == analytics.topProducts
        IN /\ Len(tp) <= TopLimit
           /\ Len(tp) = Min(TopLimit, Cardinality(KeptProductIds))
           /\ \A i \in 1..(Len(tp) - 1) : tp[i].revenue >= tp[i + 1].revenue
           /\ \E top \in SUBSET KeptProductIds :
                 /\ StandsFor(tp, top)
                 /\ \A id \in KeptProductIds \ top : \A i \in 1..Len(tp) :
                       tp[i].revenue >= RevenueOfProduct(id)

\* C12 witness: a report over more than 5 distinct productIds whose first
\* entry earns more than its last, which earns more than a product left out.
C12_Witness ==
    /\ Computed
    /\ Cardinality(KeptProductIds) > TopLimit
    /\ Len(analytics.topProducts) = TopLimit
    /\ analytics.topProducts[1].revenue > analytics.topProducts[TopLimit].revenue
    /\ \E id \in KeptProductIds :
          RevenueOfProduct(id) < analytics.topProducts[TopLimit].revenue

\* The order in which the two nested loops visit the line items, and the
\* first line item that names a product.
Earlier(p, q) == p[1] < q[1] \/ (p[1] = q[1] /\ p[2] < q[2])

FirstItemOf(id) ==
    CHOOSE p \in KeptItemAt :
        /\ ItemAt(p).productId = id
        /\ \A q \in KeptItemAt : ItemAt(q).productId = id => ~Earlier(q, p)

SeenBefore(a, b) == Earlier(FirstItemOf(a), FirstItemOf(b))

\* The places of topProducts that carry the name of a product's first line item.
PlacesOf(id) ==
    {i \in 1..Len(analytics.topProducts) :
        analytics.topProducts[i].name = ItemAt(FirstItemOf(id)).name}

\* C13: of two products with equal revenue, topProducts lists first (and at
\* the cut after the 5th entry retains) the one whose productId the loops met
\* first, whatever the productId looks like. (Read for reports whose products
\* carry distinct names, so that an entry tells its product.)
C13_TiesKeepEncounterOrder ==
    (Computed /\ \A a, b \in KeptProductIds :
                    a # b => ItemAt(FirstItemOf(a)).name # ItemAt(FirstItemOf(b)).name) =>
        \A a, b \in KeptProductIds :
            (RevenueOfProduct(a) = RevenueOfProduct(b) /\ SeenBefore(a, b)) =>
                \A j \in PlacesOf(b) : \E i \in PlacesOf(a) : i < j

RECURSIVE QuantityOf(_)
QuantityOf(ps) ==
    IF ps = {} THEN 0
    ELSE LET p == CHOOSE p \in ps : TRUE
         IN ItemAt(p).quantity + QuantityOf(ps \ {p})

QuantityOfProduct(id) == QuantityOf({p \in KeptItemAt : ItemAt(p).productId = id})

\* The group of a product: the name its first line item carries, the sum of
\* quantity and the sum of price*quantity over its line items.
GroupOf(id) ==
    [name |-> ItemAt(FirstItemOf(id)).name,
     sales |-> QuantityOfProduct(id),
     revenue |-> RevenueOfProduct(id)]

\* C14: the group of each distinct productId among the retained line items
\* has sales equal to the sum of quantity and revenue equal to the sum of
\* price*quantity over all its line items across the retained orders, and the
\* name a line item carries: every entry of topProducts is such a group, and
\* with at most 5 products every group is an entry; one order with the line
\* item {pA, Shirt, price 50, quantity 2} gives {Shirt, 2, 100}.
C14_GroupsSumQuantityAndRevenue ==
    Computed =>
        /\ \A i \in 1..Len(analytics.topProducts) :
              \E id \in KeptProductIds : analytics.topProducts[i] = GroupOf(id)
        /\ Cardinality(KeptProductIds) <= TopLimit =>
              \A id \in KeptProductIds :
                  \E i \in 1..Len(analytics.topProducts) :
                      analytics.topProducts[i] = GroupOf(id)
        /\ (Len(Kept) = 1 /\ KeptItemAt = {<<1, 1>>}
             /\ ItemAt(<<1, 1>>) = [productId |-> "pA", name |-> "Shirt",
                                    price |-> 50, quantity |-> 2]) =>
              analytics.topProducts = <<[name |-> "Shirt", sales |-> 2, revenue |-> 100]>>

\* C14 witness: a product with line items in two retained orders, reported
\* next to another product with the quantities and revenues of both orders summed.
C14_Witness ==
    /\ Computed
    /\ Cardinality(KeptProductIds) > 1
    /\ \E p, q \in KeptItemAt :
          /\ p[1] # q[1]
          /\ ItemAt(p).productId = ItemAt(q).productId
          /\ ItemAt(p).quantity > 1
          /\ \E i \in 1..Len(analytics.topProducts) :
                /\ analytics.topProducts[i] = GroupOf(ItemAt(p).productId)
                /\ analytics.topProducts[i].sales = ItemAt(p).quantity + ItemAt(q).quantity

\* The line items of the retained orders whose productId names a product of
\* the snapshot, and those of them whose product's categoryId names no category.
WithProduct == {p \in KeptItemAt : ~HasNoProduct(ItemAt(p))}

CategoryMissing(item) ==
    \E k \in 1..Len(Snapshot.products) :
        /\ Snapshot.products[k].id = item.productId
        /\ \A c \in 1..Len(Snapshot.categories) :
              Snapshot.products[k].categoryId # Some(Snapshot.categories[c].id)

\* The category of a line item, when its product and category both resolve.
CategoryOf(item) ==
    {c \in 1..Len(Snapshot.categories) :
        \E k \in 1..Len(Snapshot.products) :
            /\ Snapshot.products[k].id = item.productId
            /\ Snapshot.products[k].categoryId = Some(Snapshot.categories[c].id)}

EntriesNamed(name) ==
    {i \in 1..Len(analytics.revenueByCategory) : analytics.revenueByCategory[i].name = name}

\* C15: a line item whose product exists but whose categoryId matches no
\* category is added to the revenueByCategory entry "Unknown"; a line item
\* whose product and category both resolve is added to the entry named by the
\* category's name, and to no other entry: each entry holds the revenue of
\* the line items that resolve to its name, and the values sum to the
\* revenue of the line items whose product exists.
C15_CategoryEntryOfEachItem ==
    Computed =>
        /\ \A p \in WithProduct :
              /\ CategoryMissing(ItemAt(p)) => ResolvedName(ItemAt(p)) = "Unknown"
              /\ \A c \in CategoryOf(ItemAt(p)) :
                    IsSome(Snapshot.categories[c].name) =>
                        ResolvedName(ItemAt(p)) = Snapshot.categories[c].name[1]
              /\ \E i \in EntriesNamed(ResolvedName(ItemAt(p))) :
                    analytics.revenueByCategory[i].value =
                        RevenueOf({q \in WithProduct :
                                      ResolvedName(ItemAt(q)) = ResolvedName(ItemAt(p))})
        /\ SumOfValue(analytics.revenueByCategory) = RevenueOf(WithProduct)

\* C15 witness: a report over a line item whose product's category is
\* missing and a line item whose category resolves to another name.
C15_Witness ==
    /\ Computed
    /\ \E p, q \in WithProduct :
          /\ CategoryMissing(ItemAt(p))
          /\ CategoryOf(ItemAt(q)) # {}
          /\ ResolvedName(ItemAt(q)) # "Unknown"
    /\ Len(analytics.revenueByCategory) = 2

ShareName(p, q) ==
    \E c \in CategoryOf(ItemAt(p)), d \in CategoryOf(ItemAt(q)) :
        /\ c # d
        /\ IsSome(Snapshot.categories[c].name)
        /\ Snapshot.categories[c].name = Snapshot.categories[d].name

InWindow ==
    {i \in 1..Len(Snapshot.orders) :
        IF IsSome(Snapshot.orders[i].createdAt)
        THEN Snapshot.orders[i].createdAt[1] >= Cutoff
        ELSE Cutoff <= 0}

RECURSIVE AmountOf(_)
AmountOf(is) ==
    IF is = {} THEN 0
    ELSE LET i == CHOOSE i \in is : TRUE
         IN (IF IsSome(Snapshot.orders[i].totalAmount)
             THEN Snapshot.orders[i].totalAmount[1] ELSE 0) + AmountOf(is \ {i})

\* C17: totalOrders is the number of retained orders and totalRevenue the sum
\* of their totalAmount, a missing totalAmount counting 0; the orders outside
\* the window add to neither.
C17_TotalsOverRetainedOrders ==
    Computed =>
        /\ analytics.totalOrders = Cardinality(InWindow)
        /\ analytics.totalRevenue = AmountOf(InWindow)

\* C17 witness: a report over a retained order with an amount, a retained
\* order without one, and an order outside the window.
C17_Witness ==
    /\ Computed
    /\ \E i, j \in InWindow :
          /\ Snapshot.orders[i].totalAmount = None
          /\ IsSome(Snapshot.orders[j].totalAmount)
          /\ analytics.totalRevenue = Snapshot.orders[j].totalAmount[1]
    /\ \E k \in 1..Len(Snapshot.orders) :
          /\ k \notin InWindow
          /\ IsSome(Snapshot.orders[k].totalAmount)
    /\ analytics.totalOrders = 2

\* A double times a positive whole number, as JavaScript's * computes it: the
\* exact product of the bits, rounded.
\* The bits taken twelve at a time from the low end, each dozen as a whole
\* number times n plus the carry of the dozen below it.
ValueOf(bits) == Sum([i \in 1..Len(bits) |-> bits[i] * 2 ^ (Len(bits) - i)])

ToBits(v, width) == [i \in 1..width |-> (v \div 2 ^ (width - i)) % 2]

RECURSIVE TimesBits(_, _, _)
TimesBits(bits, n, carry) ==
    IF Len(bits) <= 12
    THEN LET v == ValueOf(bits) * n + carry
         IN [bits |-> ToBits(v, Len(bits)), carry |-> v \div 2 ^ Len(bits)]
    ELSE LET low == TimesBits(SubSeq(bits, Len(bits) - 11, Len(bits)), n, carry)
             high == TimesBits(SubSeq(bits, 1, Len(bits) - 12), n, low.carry)
         IN [bits |-> high.bits \o low.bits, carry |-> high.carry]

Times(d, n) ==
    IF d = Zero THEN Zero
    ELSE LET whole == TimesBits(d.bits, n, 0)
             product == BitsOf(whole.carry) \o whole.bits
         IN RoundToDouble(product, d.exp + Len(product) - MantissaBits, FALSE)

\* The doubles next above and next below a positive double.
Succ(d) ==
    LET raised == PlusOne(d.bits)
    IN IF Len(raised) > MantissaBits
       THEN [bits |-> SubSeq(raised, 1, MantissaBits), exp |-> d.exp + 1]
       ELSE [bits |-> raised, exp |-> d.exp]

MinusOne(bits) ==
    LET last == CHOOSE i \in 1..Len(bits) :
                    bits[i] = 1 /\ \A j \in (i + 1)..Len(bits) : bits[j] = 0
    IN [i \in 1..Len(bits) |-> IF i < last THEN bits[i] ELSE IF i = last THEN 0 ELSE 1]

Pred(d) ==
    LET lowered == MinusOne(d.bits)
    IN IF lowered[1] = 0
       THEN [bits |-> Append(Tail(lowered), 1), exp |-> d.exp - 1]
       ELSE [bits |-> lowered, exp |-> d.exp]

\* C18 as claimed: in every report averageOrderValue * totalOrders equals
\* totalRevenue when totalOrders > 0, and averageOrderValue is exactly 0 when
\* totalOrders is 0.
C18_AverageTimesOrdersIsRevenue ==
    Computed =>
        IF analytics.totalOrders > 0
        THEN Times(analytics.averageOrderValue, analytics.totalOrders)
                 = DoubleOf(analytics.totalRevenue)
        ELSE analytics.averageOrderValue = Zero

\* C18 as amended: averageOrderValue is the quotient totalRevenue /
\* totalOrders rounded to a double when totalOrders > 0, so that
\* averageOrderValue * totalOrders is totalRevenue or a double next to it;
\* averageOrderValue is exactly 0 when totalOrders is 0.
C18_AverageIsRoundedQuotient ==
    Computed =>
        IF analytics.totalOrders > 0
        THEN /\ analytics.averageOrderValue
                   = Divide(analytics.totalRevenue, analytics.totalOrders)
             /\ LET back == Times(analytics.averageOrderValue, analytics.totalOrders)
                    revenue == DoubleOf(analytics.totalRevenue)
                IN IF revenue = Zero THEN back = Zero
                   ELSE back \in {Pred(revenue), revenue, Succ(revenue)}
        ELSE analytics.averageOrderValue = Zero

\* C18 witness: a report over 7 orders totalling 29, whose average times 7 is
\* the double next above 29.
C18_Witness ==
    /\ Computed
    /\ analytics.totalOrders = 7
    /\ analytics.totalRevenue = 29
    /\ Times(analytics.averageOrderValue, 7) = Succ(DoubleOf(29))

\* The retained orders that carry exactly the status v, and those that carry
\* none.
WithStatus(v) == {i \in 1..Len(Kept) : Kept[i].status = Some(v)}
WithoutStatus == {i \in 1..Len(Kept) : Kept[i].status = None}

KeptStatuses == {Kept[i].status[1] : i \in {k \in 1..Len(Kept) : IsSome(Kept[k].status)}}

StatusEntries(v) ==
    {i \in 1..Len(analytics.ordersByStatus) : analytics.ordersByStatus[i].status = v}

\* C19 as claimed: ordersByStatus has one entry per distinct literal status
\* value among the retained orders, counting the retained orders with
\* exactly that value, values that differ in letter case apart; the retained
\* orders without a status are counted under "Unknown".
C19_OneEntryPerLiteralStatus ==
    Computed =>
        /\ \A v \in KeptStatuses :
              \E i \in StatusEntries(v) :
                  analytics.ordersByStatus[i].count = Cardinality(WithStatus(v))
        /\ WithoutStatus # {} => StatusEntries("Unknown") # {}

\* C19 as amended: ordersByStatus has one entry per distinct value of
\* status || "Unknown" among the retained orders. A status other than
\* "Unknown" and the empty string has its own entry, counting the retained
\* orders with exactly that value, letter case included; the one entry
\* "Unknown" counts the retained orders with no status, with the empty
\* string, and with the literal status "Unknown" together.
C19_OneEntryPerStatusOrUnknown ==
    Computed =>
        LET obs == analytics.ordersByStatus
            unknown == WithoutStatus \cup WithStatus("") \cup WithStatus("Unknown")
        IN /\ \A i, j \in 1..Len(obs) : obs[i].status = obs[j].status => i = j
           /\ {obs[i].status : i \in 1..Len(obs)} =
                  (KeptStatuses \ {""}) \cup (IF unknown = {} THEN {} ELSE {"Unknown"})
           /\ \A i \in 1..Len(obs) :
                 obs[i].count = IF obs[i].status = "Unknown" THEN Cardinality(unknown)
                                ELSE Cardinality(WithStatus(obs[i].status))

\* C19 witness: a report with the entries "Pending" and "pending" apart and
\* an entry "Unknown" that counts an order without a status.
C19_Witness ==
    /\ Computed
    /\ WithoutStatus # {}
    /\ \E i \in StatusEntries("Pending"), j \in StatusEntries("pending"),
             k \in StatusEntries("Unknown") :
          /\ analytics.ordersByStatus[i].count = 1
          /\ analytics.ordersByStatus[j].count = 1
          /\ analytics.ordersByStatus[k].count = Cardinality(WithoutStatus)

\* The retained orders created on a calendar day, those without a timestamp,
\* and the sum of the totalAmount of some retained orders, a missing one as 0.
KeptOn(day) ==
    {k \in 1..Len(Kept) : IsSome(Kept[k].createdAt) /\ DayOf(Kept[k].createdAt[1]) = day}

KeptUnstamped == {k \in 1..Len(Kept) : Kept[k].createdAt = None}

RECURSIVE KeptAmountOf(_)
KeptAmountOf(ks) ==
    IF ks = {} THEN 0
    ELSE LET k == CHOOSE k \in ks : TRUE
         IN (IF IsSome(Kept[k].totalAmount) THEN Kept[k].totalAmount[1] ELSE 0)
            + KeptAmountOf(ks \ {k})

\* C20: each bucket of salesOverTime has sales equal to the number of retained
\* orders created on its local calendar date and revenue equal to the sum of
\* their totalAmount, a missing one as 0, and no date has two buckets; two
\* retained orders of one date with amounts 50 and 30 give one bucket with
\* sales 2 and revenue 80. (A bucket dated "Unknown" holds the retained orders
\* without a timestamp.)
C20_BucketCountsAndRevenue ==
    Computed =>
        LET sot == analytics.salesOverTime
        IN /\ \A i, j \in 1..Len(sot) : sot[i].date = sot[j].date => i = j
           /\ \A i \in 1..Len(sot) :
                 LET on == IF sot[i].date = UnknownDate THEN KeptUnstamped
                           ELSE KeptOn(DayNamed(sot[i].date, locale))
                 IN /\ on # {}
                    /\ sot[i].sales = Cardinality(on)
                    /\ sot[i].revenue = KeptAmountOf(on)
           /\ (/\ Len(Kept) = 2
               /\ {Kept[1].totalAmount, Kept[2].totalAmount} = {Some(50), Some(30)}
               /\ IsSome(Kept[1].createdAt)
               /\ KeptOn(DayOf(Kept[1].createdAt[1])) = {1, 2}) =>
                 /\ Len(sot) = 1
                 /\ sot[1].sales = 2
                 /\ sot[1].revenue = 80

\* C20 witness: two retained orders created at different times of one day,
\* with amounts 50 and 30, reported as one bucket with sales 2 and revenue 80.
C20_Witness ==
    /\ Computed
    /\ Len(Kept) = 2
    /\ Kept[1].totalAmount = Some(50)
    /\ Kept[2].totalAmount = Some(30)
    /\ IsSome(Kept[1].createdAt) /\ IsSome(Kept[2].createdAt)
    /\ Kept[1].createdAt # Kept[2].createdAt
    /\ DayOf(Kept[1].createdAt[1]) = DayOf(Kept[2].createdAt[1])
    /\ Len(analytics.salesOverTime) = 1
    /\ analytics.salesOverTime[1].sales = 2
    /\ analytics.salesOverTime[1].revenue = 80

\* An order with no line-item list or an empty one, and an order whose list
\* holds line items only.
WithoutItems(order) ==
    \/ order.products.kind = "absent"
    \/ order.products.kind = "array" /\ order.products.items = <<>>

WellFormed(order) ==
    \/ order.products.kind = "absent"
    \/ /\ order.products.kind = "array"
       /\ \A j \in 1..Len(order.products.items) : IsSome(order.products.items[j])

KeptWithItems == SelectSeq(Kept, LAMBDA o : ~WithoutItems(o))

\* C21: a retained order with no line-item list or an empty one adds nothing
\* to topProducts or revenueByCategory and raises no error: when the other
\* retained orders are well formed the run sets a report, whose topProducts
\* and revenueByCategory are those of the other retained orders alone; the
\* order is still counted in totalOrders, totalRevenue, ordersByStatus and,
\* up to the cut to 14 dates, salesOverTime.
C21_OrdersWithoutItemsAddNothing ==
    (ReadsDone /\ \A i \in 1..Len(Kept) : WellFormed(Kept[i])) =>
        /\ Computed
        /\ analytics.topProducts = topProducts(KeptWithItems)
        /\ analytics.revenueByCategory =
              revenueByCategory(KeptWithItems, Snapshot.products, Snapshot.categories)
        /\ analytics.totalOrders = Len(Kept)
        /\ analytics.totalRevenue = KeptAmountOf(1..Len(Kept))
        /\ Sum([i \in 1..Len(analytics.ordersByStatus) |-> analytics.ordersByStatus[i].count])
              = Len(Kept)
        /\ \A i \in 1..Len(Kept) :
              (WithoutItems(Kept[i]) /\ Cardinality(KeptDays) < SeriesLimit) =>
                  \E k \in 1..Len(analytics.salesOverTime) :
                      analytics.salesOverTime[k].date = DateKey(Kept[i], locale)

\* C21 witness: a report over an order without a line-item list, an order
\* with an empty one or with line items, and at least one product.
C21_Witness ==
    /\ Computed
    /\ Len(Kept) = 2
    /\ Kept[1].products.kind = "absent"
    /\ Kept[2].products.kind = "array"
    /\ Len(KeptWithItems) = 1
    /\ analytics.topProducts # <<>>
    /\ analytics.totalOrders = 2
    /\ analytics.totalRevenue = KeptAmountOf({1, 2})

\* C22: two runs on an identical snapshot with the same window produce
\* identical reports, whenever each run takes place: the report a run has set
\* is the report of a run on the same snapshot and window one tick or one
\* day later. (Stated for the windows the page offers.)
C22_SameInputsSameReport ==
    (Computed /\ outcome.range \in SelectItems) =>
        \A later \in {outcome.now + 1, outcome.now + TicksPerDay} :
            Report(Snapshot.orders, Snapshot.products, Snapshot.categories,
                   later, outcome.range, locale) = analytics

\* C23: the run that follows a change of timeRange re-reads the three
\* collections and recomputes every field of the report from the snapshot it
\* read: when the reads of a run after the first succeed, the report is then
\* the report of that snapshot, the new window and the time of the run.
C23_ChangeRecomputesReport ==
    [][(/\ run.phase = "reading" /\ run'.phase = "idle"
        /\ outcome.kind # "none"
        /\ outcome'.kind \in {"ok", "raised"})
       => /\ outcome'.snapshot = store
          /\ outcome'.range = timeRange
          /\ outcome'.kind = "ok"
          /\ analytics' = Report(store.orders, store.products, store.categories,
                                 now, timeRange, locale)]_vars

\* C24: whenever loading is false and no run is in flight or about to start,
\* the analytics shown is the report computed with the selected timeRange:
\* the last run settled with a report, for that timeRange, and the report is
\* the one of the snapshot it read.
C24_ShownReportIsOfSelectedRange ==
    (~loading /\ run.phase = "idle") =>
        /\ outcome.kind = "ok"
        /\ outcome.range = timeRange
        /\ analytics = Report(Snapshot.orders, Snapshot.products, Snapshot.categories,
                              outcome.now, timeRange, locale)

\* C25: a run that fails, by a rejected read or a raising computation,
\* leaves analytics exactly as it was before the run and timeRange unchanged.
C25_FailedRunLeavesAnalytics ==
    [][(/\ run.phase = "reading" /\ run'.phase = "idle"
        /\ outcome'.kind \in {"readFailed", "raised"})
       => /\ analytics' = analytics
          /\ timeRange' = timeRange]_vars

\* C25 witness: a run for another window has failed on its reads and the
\* report of an earlier run, over at least one order, still stands.
C25_Witness ==
    /\ run.phase = "idle"
    /\ outcome.kind = "readFailed"
    /\ outcome.range = timeRange
    /\ timeRange # "30"
    /\ analytics.totalOrders > 0

\* C26: every run sets loading to true before its reads start and, the reads
\* settling, sets loading to false whether it succeeds or fails; once every
\* started run has settled the page is not on the spinner.
C26_LoadingSetThenCleared ==
    /\ [](run.phase = "reading" => loading)
    /\ [](run.phase = "idle" => View = "report")
    /\ (run.phase = "reading") ~> (run.phase = "idle" /\ ~loading)

\* C26 witness: a run whose computation raised has settled and the page is
\* off the spinner.
C26_Witness ==
    /\ run.phase = "idle"
    /\ outcome.kind = "raised"
    /\ ~loading
    /\ View = "report"

\* C27: in every window whose cutoff is later than the start of the epoch, the
\* offered 7, 30, 90 and 365 days among them, no order without a timestamp is
\* retained and salesOverTime has no bucket dated "Unknown".
C27_NoUnknownBucketAfterEpoch ==
    (Computed /\ Cutoff > 0) =>
        /\ KeptUnstamped = {}
        /\ \A i \in 1..Len(analytics.salesOverTime) :
              analytics.salesOverTime[i].date # UnknownDate
        /\ Len(analytics.salesOverTime) = Min(SeriesLimit, Cardinality(KeptDays))

\* C27 witness: a snapshot with an order without a timestamp, read under an
\* offered window, whose series has dated buckets only.
C27_Witness ==
    /\ Computed
    /\ outcome.range \in SelectItems
    /\ Cutoff > 0
    /\ \E i \in 1..Len(Snapshot.orders) : Snapshot.orders[i].createdAt = None
    /\ Len(Kept) > 0
    /\ Len(analytics.salesOverTime) = Cardinality(KeptDays)
    /\ \A i \in 1..Len(analytics.salesOverTime) :
          analytics.salesOverTime[i].date # UnknownDate

\* C28: the counts of ordersByStatus sum to totalOrders: every retained order
\* is counted in exactly one entry, and an entry counts nothing else.
C28_StatusCountsSumToTotalOrders ==
    Computed =>
        LET obs == analytics.ordersByStatus
        IN /\ Sum([k \in 1..Len(obs) |-> obs[k].count]) = analytics.totalOrders
           /\ \A i \in 1..Len(Kept) :
                 Cardinality({k \in 1..Len(obs) : obs[k].status = StatusOf(Kept[i])}) = 1
           /\ \A k \in 1..Len(obs) :
                 obs[k].count = Cardinality({i \in 1..Len(Kept) : StatusOf(Kept[i]) = obs[k].status})

\* C28 witness: three retained orders, two of one status and one without a
\* status, in two entries whose counts sum to 3.
C28_Witness ==
    /\ Computed
    /\ analytics.totalOrders = 3
    /\ Len(analytics.ordersByStatus) = 2
    /\ \E k \in 1..2 : /\ analytics.ordersByStatus[k].status = "Pending"
                        /\ analytics.ordersByStatus[k].count = 2
    /\ \E i \in 1..3 : Kept[i].status = None
    /\ analytics.ordersByStatus[1].count + analytics.ordersByStatus[2].count = 3

\* The date keys of the retained orders ("Unknown" for one without a timestamp)
\* and the retained orders whose key has a bucket in the report.
KeptKeys == {DateKey(Kept[i], locale) : i \in 1..Len(Kept)}

ShownKeys == {analytics.salesOverTime[k].date : k \in 1..Len(analytics.salesOverTime)}

KeptShown == {i \in 1..Len(Kept) : DateKey(Kept[i], locale) \in ShownKeys}

\* C29: with at most 14 distinct dates among the retained orders the sales of
\* salesOverTime sum to totalOrders and the revenues to totalRevenue; with
\* more, 14 dates are kept and the sums are the number and the totalAmount sum
\* of exactly the retained orders on those 14 dates.
C29_SeriesSumsMatchTotals ==
    Computed =>
        LET sot == analytics.salesOverTime
            sales == Sum([k \in 1..Len(sot) |-> sot[k].sales])
            revenue == Sum([k \in 1..Len(sot) |-> sot[k].revenue])
        IN /\ Cardinality(KeptKeys) <= SeriesLimit =>
                 /\ sales = analytics.totalOrders
                 /\ revenue = analytics.totalRevenue
           /\ Cardinality(KeptKeys) > SeriesLimit =>
                 /\ Len(sot) = SeriesLimit
                 /\ Cardinality(ShownKeys) = SeriesLimit
                 /\ ShownKeys \subseteq KeptKeys
                 /\ sales = Cardinality(KeptShown)
                 /\ revenue = KeptAmountOf(KeptShown)

\* C29 witness: retained orders on 15 dates, 14 buckets, and sums that fall
\* short of the totals by the one order left out.
C29_Witness ==
    /\ Computed
    /\ Cardinality(KeptKeys) = SeriesLimit + 1
    /\ Len(analytics.salesOverTime) = SeriesLimit
    /\ analytics.totalOrders = SeriesLimit + 1
    /\ Cardinality(KeptShown) = SeriesLimit
    /\ Sum([k \in 1..SeriesLimit |-> analytics.salesOverTime[k].sales]) = SeriesLimit
    /\ Sum([k \in 1..SeriesLimit |-> analytics.salesOverTime[k].revenue]) < analytics.totalRevenue

\* The fetched list with every successful store write applied: the fetched
\* orders still in the collection, each with the status the collection holds.
FetchedWithWritesApplied ==
    LET kept == SelectSeq(customOrders.fetched, LAMBDA o : InCollection(o.id))
    IN [i \in 1..Len(kept) |->
           CHOOSE d \in Range(customOrders.docs) : d.id = kept[i].id]

AllCallsResolved == customOrders.phase = "settled" /\ customOrders.calls = <<>>

\* C30: on the CustomOrders page, once every updateOrderStatus and handleDelete
\* call has resolved, the local orders list is the fetched list with every
\* successful store write applied: deleted orders are absent, the others carry
\* the status of their last successful update, failed calls change nothing.
C30_ListReflectsSuccessfulWrites ==
    AllCallsResolved => customOrders.orders = FetchedWithWritesApplied

====
